---- MODULE Spec2Model ----
(***************************************************************************)
(* Model of the TikTok scraper driver (src/main.py): main, run_analysis    *)
(* and the collaborators run_analysis drives (config resolver, batch       *)
(* engine, result merger).  The collaborators live in the analyzer         *)
(* package, which is not part of src/; they are modelled from spec.md.     *)
(***************************************************************************)
EXTENDS Integers, Sequences, FiniteSets

VARIABLES
    pc,            \* position of main / run_analysis
    args,          \* parsed command line (argparse namespace)
    trace,         \* steps main has performed, in order
    exit_status,   \* -1 while running, then the process exit status
    urls,          \* number of URLs read from the input file
    dl_results,    \* [total, success, failed] returned by process_urls
    videos,        \* list of <<video_path, json_path>> from discovery
    kind,          \* kind[video_path]: what analysing that file does
    overrides,     \* override values last handed to get_config
    config,        \* resolved AnalysisConfig
    raised,        \* exception that escaped main ("none" if none did)
    pending,       \* analyze_batch: videos not yet handed to a worker
    running,       \* analyze_batch: worker -> video being analysed (0 idle)
    dispatch_log,  \* analyze_batch: videos in the order they were dispatched
    total,         \* analyze_batch: number of videos handed in
    completed,     \* analyze_batch: runs completed so far
    results,       \* mapping video_path -> AnalysisResult
    progress,      \* the on_progress calls made so far
    i,             \* merge loop index into videos
    success_count,
    fail_count,
    merge_calls,   \* the update_metadata_file calls made so far
    outcome,       \* outcome[k]: counter incremented for videos[k]
    summary        \* dict returned by run_analysis

vars == <<pc, args, trace, exit_status, urls, dl_results, videos, kind,
          overrides, config, raised, pending, running, dispatch_log, total,
          completed, results, progress, i, success_count, fail_count,
          merge_calls, outcome, summary>>

----------------------------------------------------------------------------
\* Bounds
MaxVideos == 2
MaxWorkers == 2
MaxUrls == 1
CpuCount == 2

----------------------------------------------------------------------------
\* Values

Presets == <<"quick", "balanced", "thorough", "maximum", "extreme">>
PresetSet == {Presets[k] : k \in 1..Len(Presets)}
Override == {"None", "True", "False"}
Kinds == {"ok", "partial", "corrupt", "nostart"}

\* documented ranges of the numeric options (help texts, main.py 99-124)
SampleFramesMin == 1
SampleFramesMax == 300
SamplePercentMin == 1
SamplePercentMax == 100
ColorClustersMin == 3
ColorClustersMax == 20
MotionResMin == 80
MotionResMax == 1080

\* an optional integer: None is <<>>, the integer n is <<n>>
None == <<>>
Some(n) == <<n>>

NoConfig == [thoroughness |-> "", scene_detection |-> FALSE,
             full_resolution |-> FALSE, enable_audio |-> FALSE, workers |-> None]
NoOverrides == [scene_detection |-> "None", full_resolution |-> "None"]
NoSummary == [analyzed |-> -1, failed |-> -1]
NoDownload == [total |-> -1, success |-> -1, failed |-> -1]
NoResult == [errors |-> <<>>, video_quality |-> {}]
EmptyMap == [v \in {} |-> NoResult]

JsonPath(v) == 100 + v
Append2(s, e) == s \o <<e>>
Range(s) == {s[k] : k \in 1..Len(s)}
Count(s, e) == Cardinality({k \in 1..Len(s) : s[k] = e})

----------------------------------------------------------------------------
\* Config Resolver (spec.md 4.1)

PresetDefaults(preset) ==
    [thoroughness |-> preset, scene_detection |-> FALSE,
     full_resolution |-> FALSE, enable_audio |-> TRUE, workers |-> None]

ForcedExtreme(preset, c) ==
    IF preset = "extreme"
    THEN [c EXCEPT !.scene_detection = TRUE, !.full_resolution = TRUE]
    ELSE c

ApplyFlag(o, default) == IF o = "None" THEN default ELSE (o = "True")

InRange(o, lo, hi) == o = None \/ (lo <= o[1] /\ o[1] <= hi)

\* get_config fails with ConfigError when an override is out of range
ConfigValid(workers, num) ==
    /\ (workers = None \/ workers[1] >= 1)
    /\ InRange(num.sample_frames, SampleFramesMin, SampleFramesMax)
    /\ InRange(num.sample_percent, SamplePercentMin, SamplePercentMax)
    /\ InRange(num.color_clusters, ColorClustersMin, ColorClustersMax)
    /\ InRange(num.motion_res, MotionResMin, MotionResMax)

get_config(preset, enable_audio, workers, scene_detection, full_resolution) ==
    LET c == ForcedExtreme(preset, PresetDefaults(preset))
    IN [c EXCEPT !.scene_detection = ApplyFlag(scene_detection, @),
                 !.full_resolution = ApplyFlag(full_resolution, @),
                 !.enable_audio = enable_audio,
                 !.workers = IF workers = None THEN @ ELSE workers]

\* main.py 230-231: "args.x if args.x else None"
FlagAsGiven(flag) == IF flag THEN "True" ELSE "False"
FlagOverride(flag) == IF flag THEN "True" ELSE "None"

ArgOverrides(a) ==
    [scene_detection |-> FlagOverride(a.scene_detection),
     full_resolution |-> FlagOverride(a.full_resolution)]

ConfigFromArgs(a) ==
    get_config(a.thoroughness, ~a.skip_audio, a.workers,
               ArgOverrides(a).scene_detection,
               ArgOverrides(a).full_resolution)

----------------------------------------------------------------------------
\* Per-Video Analyzer (spec.md 4.4) and Result Merger (spec.md 4.6)

analyze(k) ==
    CASE k = "ok"      -> [errors |-> <<>>, video_quality |-> {"resolution"}]
      [] k = "partial" -> [errors |-> <<"extractor">>,
                           video_quality |-> {"resolution"}]
      [] OTHER         -> [errors |-> <<"open">>, video_quality |-> {}]

update_metadata_file(result, io_ok) ==
    io_ok /\ result.video_quality # {}

----------------------------------------------------------------------------
\* run_analysis helpers (main.py)

VideoPathsFirst(vs) == [k \in 1..Len(vs) |-> vs[1][1]]
VideoPathsTail(vs) == [k \in 1..(Len(vs) - 1) |-> vs[k + 1][1]]
VideoPathsTwice(vs) == [k \in 1..Len(vs) |-> vs[k][1]] \o <<vs[1][1]>>
video_paths(vs) == [k \in 1..Len(vs) |-> vs[k][1]]

PoolSize(workers) ==
    IF workers = None
    THEN (IF CpuCount - 1 < 1 THEN 1 ELSE CpuCount - 1)
    ELSE workers[1]

\* on_progress(completed, total): the progress line it prints
on_progress(c, t) ==
    [completed |-> c, total |-> t,
     pct |-> (c * 100) \div t,
     filled |-> (30 * c) \div t]

\* main.py 283-299: which counter one pair increments
MergeOutcomeTrustErrors(present, result, ret) ==
    IF present /\ result.errors = <<>> /\ ret THEN "analyzed" ELSE "failed"
MergeOutcomeSkipAbsent(present, result, ret) ==
    IF ~present THEN "none"
    ELSE IF result.errors = <<>>
         THEN (IF ret THEN "analyzed" ELSE "failed")
         ELSE (IF result.video_quality # {} THEN "analyzed" ELSE "failed")
MergeOutcome(present, result, ret) ==
    IF present
    THEN IF result.errors = <<>>
         THEN (IF ret THEN "analyzed" ELSE "failed")
         ELSE (IF result.video_quality # {} THEN "analyzed" ELSE "failed")
    ELSE "failed"

\* main.py 283-299: the update_metadata_file calls one pair makes
MergeCallsCleanOnly(present, v, j, result, ret) ==
    IF present /\ result.errors = <<>>
    THEN <<[json |-> j, video |-> v, result |-> result, ret |-> ret]>>
    ELSE <<>>
MergeCalls(present, v, j, result, ret) ==
    IF present
    THEN <<[json |-> j, video |-> v, result |-> result, ret |-> ret]>>
    ELSE <<>>

\* main.py 325-327 and 376-377
AnalyzeOnlyExitAlwaysZero(s) == 0
AnalyzeOnlyExit(s) == IF s.failed > 0 THEN 1 ELSE 0
DownloadExitWithAnalysis(r, s) == IF r.failed > 0 \/ s.failed > 0 THEN 1 ELSE 0
DownloadExit(r, s) == IF r.failed > 0 THEN 1 ELSE 0

----------------------------------------------------------------------------
\* Initial state: parse_arguments has returned

\* --workers is type=int with no range check: None when not given, else
\* any integer, zero and negative ones included
ArgSpace ==
    [analyze_only : BOOLEAN, analyze : BOOLEAN, no_browser : BOOLEAN,
     thoroughness : PresetSet, skip_audio : BOOLEAN,
     scene_detection : BOOLEAN, full_resolution : BOOLEAN,
     workers : {None} \cup {Some(n) : n \in (-1)..MaxWorkers}]

\* --sample-frames, --sample-percent, --color-clusters, --motion-res are
\* type=int with no range check (main.py 98-124).  run_analysis reads each
\* once, in the get_config call, so their values are drawn at that call:
\* not given, just below the range, the least value in it, just above it.
OptAround(lo, hi) == {None, Some(lo - 1), Some(lo), Some(hi + 1)}
NumericArgs ==
    [sample_frames : OptAround(SampleFramesMin, SampleFramesMax),
     sample_percent : OptAround(SamplePercentMin, SamplePercentMax),
     color_clusters : OptAround(ColorClustersMin, ColorClustersMax),
     motion_res : OptAround(MotionResMin, MotionResMax)]

Idle(n) == [w \in 1..n |-> 0]

InitRest ==
    /\ trace = <<>>
    /\ exit_status = -1
    /\ urls = 0
    /\ dl_results = NoDownload
    /\ videos = <<>>
    /\ kind = <<>>
    /\ overrides = NoOverrides
    /\ config = NoConfig
    /\ raised = "none"
    /\ pending = <<>>
    /\ running = Idle(0)
    /\ dispatch_log = <<>>
    /\ total = 0
    /\ completed = 0
    /\ results = EmptyMap
    /\ progress = <<>>
    /\ i = 0
    /\ success_count = 0
    /\ fail_count = 0
    /\ merge_calls = <<>>
    /\ outcome = <<>>
    /\ summary = NoSummary

Init ==
    /\ pc = "main"
    /\ args \in ArgSpace
    /\ InitRest

----------------------------------------------------------------------------
\* main (main.py 311-377)

mainVars == <<trace, exit_status, urls, dl_results>>
configVars == <<overrides, config, raised>>
analysisVars == <<videos, kind, configVars, pending, running,
                  dispatch_log, total, completed, results, progress, i, success_count,
                  fail_count, merge_calls, outcome, summary>>

\* 320-323: --analyze-only goes straight to run_analysis
MainAnalyzeOnly ==
    /\ pc = "main"
    /\ args.analyze_only
    /\ trace' = Append2(trace, "run_analysis")
    /\ pc' = "find"
    /\ UNCHANGED <<args, exit_status, urls, dl_results, analysisVars>>

\* 329-334: input file check
CheckInput ==
    /\ pc = "main"
    /\ ~args.analyze_only
    /\ trace' = Append2(trace, "check_input")
    /\ \E exists \in BOOLEAN :
          IF exists
          THEN pc' = "read" /\ UNCHANGED exit_status
          ELSE pc' = "exit" /\ exit_status' = 1
    /\ UNCHANGED <<args, urls, dl_results, analysisVars>>

\* 336-347: read the URLs
ReadUrls ==
    /\ pc = "read"
    /\ trace' = Append2(trace, "read_urls")
    /\ \E n \in 0..MaxUrls :
          /\ urls' = n
          /\ IF n = 0
             THEN pc' = "exit" /\ exit_status' = 1
             ELSE pc' = "scraper" /\ UNCHANGED exit_status
    /\ UNCHANGED <<args, dl_results, analysisVars>>

\* 349-361: construct the scraper, optionally initialise browser cookies
InitScraper ==
    /\ pc = "scraper"
    /\ trace' = IF args.no_browser
                THEN Append2(trace, "scraper")
                ELSE trace \o <<"scraper", "initialize_browser">>
    /\ pc' = "download"
    /\ UNCHANGED <<args, exit_status, urls, dl_results, analysisVars>>

\* 363-373: process_urls, print_summary, then run_analysis if --analyze
ProcessUrls ==
    /\ pc = "download"
    /\ \E f \in 0..urls :
          dl_results' = [total |-> urls, success |-> urls - f, failed |-> f]
    /\ IF args.analyze
       THEN pc' = "find" /\ trace' = trace \o <<"process_urls", "run_analysis">>
       ELSE pc' = "final" /\ trace' = Append2(trace, "process_urls")
    /\ UNCHANGED <<args, exit_status, urls, analysisVars>>

\* 324-327 / 373: print_analysis_summary, then exit or fall through
AfterAnalysis ==
    /\ pc = "summary"
    /\ IF args.analyze_only
       THEN pc' = "exit" /\ exit_status' = AnalyzeOnlyExit(summary)
       ELSE pc' = "final" /\ UNCHANGED exit_status
    /\ UNCHANGED <<args, trace, urls, dl_results, analysisVars>>

\* 375-377: exit status of a download run
FinalExit ==
    /\ pc = "final"
    /\ pc' = "exit"
    /\ exit_status' = DownloadExit(dl_results, summary)
    /\ UNCHANGED <<args, trace, urls, dl_results, analysisVars>>

----------------------------------------------------------------------------
\* run_analysis (main.py 199-308)

batchVars == <<pending, running, dispatch_log, total, completed, results,
               progress>>
mergeVars == <<i, success_count, fail_count, merge_calls, outcome>>

Discovered(n) == [k \in 1..n |-> <<k, JsonPath(k)>>]

\* 213-274: discovery, get_config, and the analyze_batch call; a
\* ConfigError from get_config is caught nowhere and ends the process
StartAnalysis ==
    /\ pc = "find"
    /\ \E n \in 0..MaxVideos : \E num \in NumericArgs :
          /\ videos' = Discovered(n)
          /\ IF n = 0
             THEN /\ summary' = [analyzed |-> 0, failed |-> 0]
                  /\ pc' = "summary"
                  /\ UNCHANGED <<configVars, batchVars, exit_status>>
             ELSE IF ~ConfigValid(args.workers, num)
             THEN /\ overrides' = ArgOverrides(args)
                  /\ raised' = "ConfigError"
                  /\ exit_status' = 1
                  /\ pc' = "exit"
                  /\ UNCHANGED <<config, batchVars, summary>>
             ELSE /\ overrides' = ArgOverrides(args)
                  /\ config' = ConfigFromArgs(args)
                  /\ pending' = video_paths(Discovered(n))
                  /\ total' = Len(video_paths(Discovered(n)))
                  /\ running' = Idle(PoolSize(ConfigFromArgs(args).workers))
                  /\ pc' = "batch"
                  /\ UNCHANGED <<dispatch_log, completed, results, progress,
                                 summary, raised, exit_status>>
    /\ UNCHANGED <<args, trace, urls, dl_results, kind, mergeVars>>

Put(m, v, r) == [x \in DOMAIN m \cup {v} |-> IF x = v THEN r ELSE m[x]]

\* Batch Engine (spec.md 4.5): hand the next video to an idle worker; what
\* analysing the file will do is fixed when the worker takes it
Dispatch(w) ==
    /\ pc = "batch"
    /\ running[w] = 0
    /\ pending # <<>>
    /\ running' = [running EXCEPT ![w] = Head(pending)]
    /\ pending' = Tail(pending)
    /\ dispatch_log' = Append2(dispatch_log, Head(pending))
    /\ \E k \in Kinds : kind' = Put(kind, Head(pending), k)
    /\ UNCHANGED <<pc, args, mainVars, videos, configVars, total,
                   completed, results, progress, mergeVars, summary>>

\* one worker's per-video run: a result, or a run that never started
WorkerRun(k) ==
    IF k = "nostart"
    THEN [started |-> FALSE, result |-> NoResult]
    ELSE [started |-> TRUE, result |-> analyze(k)]

\* Batch Engine (spec.md 4.5): a run completes, is recorded and reported
Complete(w) ==
    /\ pc = "batch"
    /\ running[w] # 0
    /\ LET v == running[w]
           r == WorkerRun(kind[v])
       IN results' = IF r.started THEN Put(results, v, r.result) ELSE results
    /\ completed' = completed + 1
    /\ progress' = Append2(progress, on_progress(completed + 1, total))
    /\ running' = [running EXCEPT ![w] = 0]
    /\ UNCHANGED <<pc, args, mainVars, videos, kind, configVars,
                   pending, dispatch_log, total, mergeVars, summary>>

\* Batch Engine (spec.md 4.5, 5): the caller unblocks when all runs are done
BatchReturn ==
    /\ pc = "batch"
    /\ pending = <<>>
    /\ \A w \in DOMAIN running : running[w] = 0
    /\ pc' = "merge"
    /\ i' = 1
    /\ UNCHANGED <<args, mainVars, videos, kind, configVars, batchVars,
                   success_count, fail_count, merge_calls, outcome, summary>>

\* 282-299: one iteration of the merge loop
MergeStep ==
    /\ pc = "merge"
    /\ i <= Len(videos)
    /\ \E io_ok \in BOOLEAN :
          LET v == videos[i][1]
              j == videos[i][2]
              present == v \in DOMAIN results
              result == IF present THEN results[v] ELSE NoResult
              ret == update_metadata_file(result, io_ok)
              out == MergeOutcome(present, result, ret)
          IN /\ merge_calls' = merge_calls \o MergeCalls(present, v, j, result, ret)
             /\ outcome' = Append2(outcome, out)
             /\ success_count' = success_count + (IF out = "analyzed" THEN 1 ELSE 0)
             /\ fail_count' = fail_count + (IF out = "failed" THEN 1 ELSE 0)
    /\ i' = i + 1
    /\ UNCHANGED <<pc, args, mainVars, videos, kind, configVars,
                   batchVars, summary>>

\* 301-308: build the summary dict
ReturnSummary ==
    /\ pc = "merge"
    /\ i > Len(videos)
    /\ summary' = [analyzed |-> success_count, failed |-> fail_count]
    /\ pc' = "summary"
    /\ UNCHANGED <<args, mainVars, videos, kind, configVars, batchVars,
                   mergeVars>>

----------------------------------------------------------------------------

Next ==
    \/ MainAnalyzeOnly
    \/ CheckInput
    \/ ReadUrls
    \/ InitScraper
    \/ ProcessUrls
    \/ StartAnalysis
    \/ \E w \in DOMAIN running : Dispatch(w)
    \/ \E w \in DOMAIN running : Complete(w)
    \/ BatchReturn
    \/ MergeStep
    \/ ReturnSummary
    \/ AfterAnalysis
    \/ FinalExit

Spec == Init /\ [][Next]_vars

TypeOK ==
    /\ pc \in {"main", "read", "scraper", "download", "find", "batch",
               "merge", "summary", "final", "exit"}
    /\ exit_status \in {-1, 0, 1}
    /\ success_count + fail_count <= Len(videos)

----------------------------------------------------------------------------
\* The config resolver on its own: every preset, every override value

InitConfig ==
    /\ pc = "resolve"
    /\ args \in ArgSpace
    /\ InitRest

\* get_config called with explicit override values
ResolveDirect ==
    /\ pc = "resolve"
    /\ \E sd \in Override : \E fr \in Override : \E num \in NumericArgs :
          /\ overrides' = [scene_detection |-> sd, full_resolution |-> fr]
          /\ IF ConfigValid(args.workers, num)
             THEN /\ config' = get_config(args.thoroughness, ~args.skip_audio,
                                          args.workers, sd, fr)
                  /\ pc' = "resolved"
                  /\ UNCHANGED raised
             ELSE /\ raised' = "ConfigError"
                  /\ pc' = "rejected"
                  /\ UNCHANGED config
    /\ trace' = Append2(trace, "get_config")
    /\ UNCHANGED <<args, exit_status, urls, dl_results, videos, kind,
                   batchVars, mergeVars, summary>>

\* get_config called as run_analysis calls it (main.py 221-232)
ResolveFromArgs ==
    /\ pc = "resolve"
    /\ overrides' = ArgOverrides(args)
    /\ \E num \in NumericArgs :
          IF ConfigValid(args.workers, num)
          THEN /\ config' = ConfigFromArgs(args)
               /\ pc' = "resolved"
               /\ UNCHANGED raised
          ELSE /\ raised' = "ConfigError"
               /\ pc' = "rejected"
               /\ UNCHANGED config
    /\ trace' = Append2(trace, "run_analysis")
    /\ UNCHANGED <<args, exit_status, urls, dl_results, videos, kind,
                   batchVars, mergeVars, summary>>

NextConfig == ResolveDirect \/ ResolveFromArgs

SpecConfig == InitConfig /\ [][NextConfig]_vars

----------------------------------------------------------------------------
\* Properties

\* analyze_batch has returned / the merge loop has ended
BatchDone ==
    pc \in {"merge", "summary", "final", "exit"} /\ videos # <<>> /\ raised = "none"
MergeDone ==
    pc \in {"summary", "final", "exit"} /\ videos # <<>> /\ raised = "none"
CallsFor(j) == {c \in 1..Len(merge_calls) : merge_calls[c].json = j}

\* C1: every video whose metadata write fails (update_metadata_file returns
\* false) is counted as failed, never as analyzed, whatever its errors and
\* video_quality; and a failed write does not stop the remaining merges.
C1_FailedWriteIsFailure ==
    /\ \A c \in 1..Len(merge_calls) :
          ~merge_calls[c].ret =>
              \A k \in 1..Len(outcome) :
                  videos[k][2] = merge_calls[c].json => outcome[k] = "failed"
    /\ (MergeDone => Len(outcome) = Len(videos))

\* C2: a video whose result has errors but populated video_quality is still
\* written (update_metadata_file is called with it) and counted as analyzed;
\* a video whose result has errors and empty video_quality is counted failed.
C2_PartialResultSaved ==
    \A k \in 1..Len(outcome) :
        LET v == videos[k][1]
            j == videos[k][2]
        IN (v \in DOMAIN results /\ results[v].errors # <<>>) =>
              /\ \E c \in CallsFor(j) : merge_calls[c].result = results[v]
              /\ outcome[k] = IF results[v].video_quality # {}
                              THEN "analyzed" ELSE "failed"

C2_Witness ==
    \E k \in 1..Len(outcome) :
        /\ videos[k][1] \in DOMAIN results
        /\ results[videos[k][1]].errors # <<>>
        /\ results[videos[k][1]].video_quality # {}
        /\ outcome[k] = "analyzed"

\* C3: for a batch of N videos, progress_callback is invoked exactly N times,
\* completed_count never decreases, total_count is N on every call, and the
\* last call has completed_count = N.
C3_ProgressCalls ==
    /\ Len(progress) <= Len(videos)
    /\ \A k \in 1..Len(progress) :
          /\ progress[k].total = Len(videos)
          /\ k > 1 => progress[k].completed >= progress[k - 1].completed
    /\ BatchDone =>
          /\ Len(progress) = Len(videos)
          /\ progress[Len(progress)].completed = Len(videos)

C3_Witness ==
    /\ pc = "merge"
    /\ Len(running) >= 2
    /\ Len(progress) >= 2
    /\ dispatch_log[1] \in DOMAIN results

\* C4: a batch of N videos of which some cannot be opened yields a mapping
\* with N entries, the corrupt ones with errors and the others without, and
\* the batch never stops short of the merge loop.
C4_Isolation ==
    /\ (BatchDone /\ \A v \in DOMAIN kind : kind[v] \in {"ok", "corrupt"}) =>
          /\ Cardinality(DOMAIN results) = Len(videos)
          /\ \A k \in 1..Len(videos) :
                /\ videos[k][1] \in DOMAIN results
                /\ (kind[videos[k][1]] = "corrupt") =
                      (results[videos[k][1]].errors # <<>>)
    /\ pc = "batch" =>
          \/ ENABLED BatchReturn
          \/ \E w \in DOMAIN running : ENABLED Dispatch(w) \/ ENABLED Complete(w)

C4_Witness ==
    /\ pc = "merge"
    /\ Len(videos) >= 2
    /\ Cardinality(DOMAIN results) = Len(videos)
    /\ kind[1] = "corrupt"
    /\ \A v \in DOMAIN kind : v # 1 => kind[v] = "ok"

\* C5: every video is dispatched to a worker exactly once, never again after
\* a failure, and no two workers analyse the same video at the same time.
C5_DispatchOnce ==
    /\ \A w1 \in DOMAIN running : \A w2 \in DOMAIN running :
          (w1 # w2 /\ running[w1] # 0) => running[w1] # running[w2]
    /\ \A k \in 1..Len(videos) : Count(dispatch_log, videos[k][1]) <= 1
    /\ BatchDone =>
          /\ Len(dispatch_log) = Len(videos)
          /\ \A k \in 1..Len(videos) : Count(dispatch_log, videos[k][1]) = 1

C5_Witness ==
    /\ pc = "batch"
    /\ Len(running) >= 2
    /\ running[1] # 0
    /\ running[2] # 0
    /\ kind[running[1]] = "corrupt"

\* C6: extreme with no overrides resolves to scene_detection and
\* full_resolution true; an explicit override wins over the forced extreme
\* defaults, which win over the preset defaults; the values the driver
\* passes for its two flags follow the same order.
C6_OverrideOrder ==
    pc = "resolved" =>
        /\ config.scene_detection =
              IF overrides.scene_detection # "None"
              THEN overrides.scene_detection = "True"
              ELSE IF args.thoroughness = "extreme" THEN TRUE
              ELSE PresetDefaults(args.thoroughness).scene_detection
        /\ config.full_resolution =
              IF overrides.full_resolution # "None"
              THEN overrides.full_resolution = "True"
              ELSE IF args.thoroughness = "extreme" THEN TRUE
              ELSE PresetDefaults(args.thoroughness).full_resolution
        /\ trace = <<"run_analysis">> =>
              /\ args.scene_detection => config.scene_detection
              /\ args.full_resolution => config.full_resolution
              /\ args.thoroughness = "extreme" =>
                    config.scene_detection /\ config.full_resolution

C6_Witness ==
    /\ pc = "resolved"
    /\ args.thoroughness = "extreme"
    /\ overrides.scene_detection = "False"
    /\ overrides.full_resolution = "None"
    /\ ~config.scene_detection
    /\ config.full_resolution

\* C7: for each discovered pair whose video is a key of the mapping,
\* update_metadata_file is called exactly once, with that pair's json_path
\* and result; it is called for no pair whose video is absent.
C7_ConsumedOnce ==
    /\ \A k \in 1..Len(outcome) :
          LET v == videos[k][1]
              j == videos[k][2]
          IN IF v \in DOMAIN results
             THEN /\ Cardinality(CallsFor(j)) = 1
                  /\ \A c \in CallsFor(j) :
                        merge_calls[c].result = results[v] /\ merge_calls[c].video = v
             ELSE CallsFor(j) = {}
    /\ \A c \in 1..Len(merge_calls) :
          \E k \in 1..Len(outcome) : videos[k][2] = merge_calls[c].json
    /\ MergeDone => Len(merge_calls) = Cardinality(DOMAIN results)

C7_Witness ==
    /\ pc = "summary"
    /\ Len(videos) >= 2
    /\ Len(merge_calls) = 1
    /\ merge_calls[1].result.errors # <<>>

\* C8 as stated: in --analyze-only mode main does no download step (no input
\* check, no URL read, no scraper, no browser cookies, no process_urls), runs
\* run_analysis once, and exits 1 exactly when the summary's failed count > 0.
C8_AnalyzeOnly ==
    args.analyze_only =>
        /\ Range(trace) \subseteq {"run_analysis"}
        /\ Len(trace) <= 1
        /\ dl_results = NoDownload
        /\ pc = "exit" =>
              /\ trace = <<"run_analysis">>
              /\ (exit_status = 1) = (summary.failed > 0)
              /\ exit_status \in {0, 1}

\* C8 amended: in --analyze-only mode main does no download step and runs
\* run_analysis once; when run_analysis returns a summary main exits 1
\* exactly when its failed count > 0, and when get_config rejects an override
\* the ConfigError ends the process with status 1 and no summary.
C8_AnalyzeOnlyUnlessRejected ==
    args.analyze_only =>
        /\ Range(trace) \subseteq {"run_analysis"}
        /\ Len(trace) <= 1
        /\ dl_results = NoDownload
        /\ urls = 0
        /\ pc = "exit" =>
              /\ trace = <<"run_analysis">>
              /\ exit_status \in {0, 1}
              /\ IF raised = "none"
                 THEN /\ summary # NoSummary
                      /\ (exit_status = 1) = (summary.failed > 0)
                 ELSE /\ summary = NoSummary
                      /\ exit_status = 1
                      /\ videos # <<>>

C8_Witness ==
    /\ pc = "exit"
    /\ args.analyze_only
    /\ raised = "none"
    /\ summary.failed > 0
    /\ exit_status = 1

\* C9: after run_analysis on a non-empty discovered list, analyzed + failed
\* equals the number of pairs: each pair is counted once, as analyzed or as
\* failed, and a video absent from the mapping is counted as failed.
C9_CountsAddUp ==
    MergeDone /\ pc = "summary" =>
        /\ summary.analyzed + summary.failed = Len(videos)
        /\ Len(outcome) = Len(videos)
        /\ summary.analyzed = Count(outcome, "analyzed")
        /\ summary.failed = Count(outcome, "failed")
        /\ \A k \in 1..Len(videos) :
              videos[k][1] \notin DOMAIN results => outcome[k] = "failed"

C9_Witness ==
    /\ pc = "summary"
    /\ Len(videos) >= 2
    /\ summary.analyzed >= 1
    /\ \E k \in 1..Len(videos) : videos[k][1] \notin DOMAIN results

\* C10 as stated: in download mode main exits 1 exactly when the download
\* failed count is greater than 0.
C10_ExitOnlyFromDownloads ==
    (~args.analyze_only /\ pc = "exit") =>
        /\ exit_status \in {0, 1}
        /\ (exit_status = 1) = (dl_results.failed > 0)

Before(s, a, b) ==
    \A kb \in 1..Len(s) : s[kb] = b => \E ka \in 1..(kb - 1) : s[ka] = a

\* C10 amended: in download mode, once process_urls has been called and
\* unless get_config rejects an override, main exits 1 exactly when the
\* download failed count is greater than 0, whatever the analysis reports;
\* the analysis runs only with --analyze and only after process_urls; without
\* process_urls (input file missing or empty) and after a ConfigError main
\* exits 1.
C10_ExitFromDownloadsOnceStarted ==
    ~args.analyze_only =>
        /\ Before(trace, "process_urls", "run_analysis")
        /\ Count(trace, "run_analysis") <= (IF args.analyze THEN 1 ELSE 0)
        /\ pc = "exit" =>
              /\ exit_status \in {0, 1}
              /\ IF Count(trace, "process_urls") = 1
                 THEN /\ Count(trace, "run_analysis") = (IF args.analyze THEN 1 ELSE 0)
                      /\ IF raised = "none"
                         THEN (exit_status = 1) = (dl_results.failed > 0)
                         ELSE exit_status = 1 /\ args.analyze
                 ELSE exit_status = 1 /\ dl_results = NoDownload

C10_Witness ==
    /\ pc = "exit"
    /\ raised = "none"
    /\ ~args.analyze_only
    /\ args.analyze
    /\ summary.failed > 0
    /\ dl_results.failed = 0
    /\ exit_status = 0

====
